---- MODULE Spec2Model ----
(***************************************************************************)
(* Model of the thorlabs MCM3000 device adaptor (thorlabs_MCM3000.py):     *)
(* class Controller, its unit conversion, move legalization and the        *)
(* blocking / non-blocking move protocol over the serial port.             *)
(*                                                                         *)
(* Physical positions (Python floats, in um) are modelled as decimal       *)
(* fixed-point numbers [w, f] standing for w + f / Frac, with 0 <= f <     *)
(* Frac, so that the constants of the source (0.2116667, 0.5, 12700,       *)
(* 25400) are exact and no intermediate value exceeds 32 bits.  The        *)
(* binary64 rounding error of the source's arithmetic (below 1e-11 um at   *)
(* these magnitudes) is beneath that resolution; the requests of the model *)
(* are chosen away from the rounding ties of the 0.2116667 stages, where a *)
(* binary64 quotient need not be the decimal one.                          *)
(***************************************************************************)
EXTENDS Integers, Sequences, FiniteSets, TLC

VARIABLES stages, reverse, _encoder_counts, _target_encoder_counts,
          position_um, pc, cur, log, result, calls

vars == <<stages, reverse, _encoder_counts, _target_encoder_counts,
          position_um, pc, cur, log, result, calls>>

\* Python's None; a value v that may be None is held as Some(v)
None == <<>>
Some(v) == <<v>>
Val(o) == o[1]

\* stages: None for a channel without a stage
NoStage == "None"

Channels == 0..2

(* ----------------------------- bounds ---------------------------------- *)
\* number of operations the caller starts in one run
MaxCalls == 2
\* a device still moving reports a count this far short of where it is heading
MaxLag == 2
\* the positions converted on their own lie this many to the micrometre
UmSteps == 16
\* the counts converted on their own lie this far from zero and from a limit
MaxCount == 3

(* ------------------------ decimal fixed point -------------------------- *)
FracDigits == 8
Frac == 10 ^ FracDigits

Um(w, f) == [w |-> w, f |-> f]
UmZero == Um(0, 0)

UmAdd(a, b) ==
    LET s == a.f + b.f
    IN  Um(a.w + b.w + (s \div Frac), s % Frac)

UmNeg(a) == IF a.f = 0 THEN Um(-a.w, 0) ELSE Um(-a.w - 1, Frac - a.f)

UmLess(a, b) == a.w < b.w \/ (a.w = b.w /\ a.f < b.f)

UmIsNeg(a) == a.w < 0

UmAbs(a) == IF UmIsNeg(a) THEN UmNeg(a) ELSE a

UmTimes10(a) ==
    LET p == a.f * 10
    IN  Um(a.w * 10 + (p \div Frac), p % Frac)

\* n * u / Frac for a natural n and a scale u < Frac, digit by digit
RECURSIVE UmScale(_, _)
UmScale(n, u) ==
    IF n = 0 THEN UmZero
    ELSE LET d == (n % 10) * u
         IN  CHOOSE um \in { UmAdd(UmTimes10(s), Um(d \div Frac, d % Frac)) :
                               s \in {UmScale(n \div 10, u)} } : TRUE

\* one step of the long division: the digit d is brought down to p
DivStep(p, d, u) ==
    LET n == p.r * 10 + d
    IN  [q |-> p.q * 10 + (n \div u), r |-> n % u]

\* quotient and remainder of floor(a * 10^k) by u, for a >= 0: long division
RECURSIVE UmDivSteps(_, _, _)
UmDivSteps(a, u, k) ==
    IF k = 0 THEN [q |-> a.w \div u, r |-> a.w % u]
    ELSE LET d == (a.f \div (10 ^ (FracDigits - k))) % 10
         IN  CHOOSE qr \in { DivStep(p, d, u) :
                               p \in {UmDivSteps(a, u, k - 1)} } : TRUE

\* variant: round() replaced by rounding up
PyRound_Ceiling(a, u) ==
    LET m  == UmAbs(a)
        qr == UmDivSteps(m, u, FracDigits)
        q  == IF qr.r = 0 THEN qr.q ELSE qr.q + 1
    IN  IF UmIsNeg(a) THEN -q ELSE q

\* Python 3 round() of a / (u / Frac): to nearest, ties to even
PyRound(a, u) ==
    LET m  == UmAbs(a)
        qr == UmDivSteps(m, u, FracDigits)
        q  == IF 2 * qr.r < u THEN qr.q
              ELSE IF 2 * qr.r > u THEN qr.q + 1
              ELSE IF qr.q % 2 = 0 THEN qr.q ELSE qr.q + 1
    IN  IF UmIsNeg(a) THEN -q ELSE q

(* ------------------------- stage configuration ------------------------- *)
\* supported_stages: 'Type': (_um_per_count, +- _position_limit_um)
SupportedStages == {"ZFM2020", "ZFM2030", "MMP-2XY"}

ZFM_um_per_count == 21166670
MMP_um_per_count == 50000000
ZFM_limit_um == 12700
MMP_limit_um == 25400

StageUmPerCount(stage) ==
    IF stage = "MMP-2XY" THEN MMP_um_per_count ELSE ZFM_um_per_count

StageLimitUm(stage) ==
    IF stage = "MMP-2XY" THEN Um(MMP_limit_um, 0) ELSE Um(ZFM_limit_um, 0)

_um_per_count(channel) == StageUmPerCount(stages[channel])
_position_limit_um(channel) == StageLimitUm(stages[channel])

\* self.channels: the channels with a stage attached
channels == {c \in Channels : stages[c] # NoStage}

\* self._encoder_counts_tol = 3*[1]
_encoder_counts_tol == 1

(* --------------------------- unit conversion --------------------------- *)
\* variant: the reversal of the channel is left out
_encoder_counts_to_um_NoReverse(channel, encoder_counts) ==
    IF encoder_counts >= 0
    THEN UmScale(encoder_counts, _um_per_count(channel))
    ELSE UmNeg(UmScale(-encoder_counts, _um_per_count(channel)))

_encoder_counts_to_um(channel, encoder_counts) ==
    LET um == IF encoder_counts >= 0
              THEN UmScale(encoder_counts, _um_per_count(channel))
              ELSE UmNeg(UmScale(-encoder_counts, _um_per_count(channel)))
    IN  IF reverse[channel] THEN UmNeg(um) ELSE um

\* variant: the reversal of the channel is left out
_um_to_encoder_counts_NoReverse(channel, um) ==
    PyRound(um, _um_per_count(channel))

_um_to_encoder_counts(channel, um) ==
    LET encoder_counts == PyRound(um, _um_per_count(channel))
    IN  IF reverse[channel] THEN -encoder_counts ELSE encoder_counts

(* ------------------------------ the Link ------------------------------- *)
\* one request written to the port, with the count read back (None if the
\* request has no response or the response was rejected)
Frame(cmd, channel, arg, resp) ==
    [cmd |-> cmd, channel |-> channel, arg |-> arg, resp |-> resp]

IsPoll(fr, channel) == fr.cmd = "get" /\ fr.channel = channel

\* the log of the current call keeps every frame, except that of a run of
\* accepted polls it keeps the first and the latest
LogAppend(l, fr) ==
    IF /\ fr.cmd = "get"
       /\ fr.resp # None
       /\ Len(l) >= 2
       /\ IsPoll(l[Len(l)], fr.channel)
       /\ IsPoll(l[Len(l) - 1], fr.channel)
    THEN [l EXCEPT ![Len(l)] = fr]
    ELSE Append(l, fr)

\* variant: the two edges of the window are swapped
InTolerance_EdgesSwapped(encoder_counts, target) ==
    /\ target + _encoder_counts_tol <= encoder_counts
    /\ encoder_counts <= target - _encoder_counts_tol

\* variant: the lower edge of the window is not tested
InTolerance_NoLowerEdge(encoder_counts, target) ==
    encoder_counts <= target + _encoder_counts_tol

InTolerance(encoder_counts, target) ==
    /\ target - _encoder_counts_tol <= encoder_counts
    /\ encoder_counts <= target + _encoder_counts_tol

\* the counts the device may report for a channel heading to the count `to`:
\* that count, the edge of the tolerance window around it, or a count short
\* of the window
Readings(channel, to) ==
    IF channel \notin channels THEN {}
    ELSE {to, to + _encoder_counts_tol, to - MaxLag}

Heading(channel) ==
    IF _target_encoder_counts[channel] # None
    THEN Val(_target_encoder_counts[channel])
    ELSE IF _encoder_counts[channel] # None
    THEN Val(_encoder_counts[channel])
    ELSE 0

(* ------------------------------- inputs -------------------------------- *)
Config(st, rv) == [stages |-> st, reverse |-> rv]

Configs ==
    { Config([c \in Channels |-> <<NoStage, "MMP-2XY", "ZFM2030">>[c + 1]],
             [c \in Channels |-> <<FALSE, FALSE, TRUE>>[c + 1]]),
      Config([c \in Channels |-> <<"ZFM2020", NoStage, NoStage>>[c + 1]],
             [c \in Channels |-> <<FALSE, FALSE, FALSE>>[c + 1]]) }

\* counts the constructor may read from a populated channel
InitCounts == {0}

HalfCount(stage) == Um(0, StageUmPerCount(stage) \div 2)
QuarterCount(stage) == Um(0, StageUmPerCount(stage) \div 4)

\* requested moves: small ones, and ones at, just inside and beyond a limit
MoveRequests(stage) ==
    LET limit == StageLimitUm(stage)
    IN  { Um(10, 0),
          limit, UmNeg(limit), UmAdd(limit, Um(1, 0)),
          UmAdd(limit, UmNeg(HalfCount(stage))),
          UmAdd(limit, UmNeg(QuarterCount(stage))) }

RequestsOf(channel) ==
    IF stages[channel] = NoStage THEN {UmZero, Um(10, 0)}
    ELSE MoveRequests(stages[channel])

\* counts handed to _move_to_encoder_count directly
CountRequests == {47}

(* ------------------------------- calls --------------------------------- *)
Call(op, channel, move_um, relative, block, counts, legal) ==
    [op |-> op, channel |-> channel, move_um |-> move_um,
     relative |-> relative, block |-> block,
     encoder_counts |-> counts, legal_move_um |-> legal,
     pending |-> _target_encoder_counts[channel],
     counts0 |-> _encoder_counts[channel],
     position0 |-> position_um[channel]]

NoCall ==
    [op |-> "init", channel |-> 0, move_um |-> None, relative |-> FALSE,
     block |-> FALSE, encoder_counts |-> None, legal_move_um |-> None,
     pending |-> None, counts0 |-> None, position0 |-> None]

Init ==
    /\ \E cfg \in Configs : stages = cfg.stages /\ reverse = cfg.reverse
    /\ _encoder_counts \in [Channels -> {Some(c) : c \in InitCounts} \cup {None}]
    /\ \A c \in Channels : (_encoder_counts[c] = None) <=> (stages[c] = NoStage)
    /\ position_um =
         [c \in Channels |->
            IF stages[c] = NoStage THEN None
            ELSE _encoder_counts_to_um(c, Val(_encoder_counts[c]))]
    /\ _target_encoder_counts = [c \in Channels |-> None]
    /\ pc = "idle"
    /\ cur = NoCall
    /\ log = <<>>
    /\ result = "none"
    /\ calls = 0

\* the caller is between two calls and may start another
Idle == pc = "idle" /\ calls < MaxCalls

\* the call raised: the exception reaches the caller
Raise(error) == pc' = "idle" /\ result' = error

Return == pc' = "idle" /\ result' = "ok"

(* ------------------------- _get_encoder_counts ------------------------- *)
\* variant: the counts are stored and the position is left as it was
GetAccepted_CountsOnly(l, channel, encoder_counts) ==
    /\ channel \in channels
    /\ log' = LogAppend(l, Frame("get", channel, None, Some(encoder_counts)))
    /\ _encoder_counts' = [_encoder_counts EXCEPT ![channel] =
                            Some(encoder_counts)]
    /\ position_um' = position_um

\* the request is answered with encoder_counts and accepted
GetAccepted(l, channel, encoder_counts) ==
    /\ channel \in channels
    /\ log' = LogAppend(l, Frame("get", channel, None, Some(encoder_counts)))
    /\ _encoder_counts' = [_encoder_counts EXCEPT ![channel] =
                            Some(encoder_counts)]
    /\ position_um' = [position_um EXCEPT ![channel] =
                         _encoder_counts_to_um(channel, encoder_counts)]

\* variant: a response that fails an assertion is dropped and the caller of
\* _get_encoder_counts carries on
GetRejected_Retries(l, channel) ==
    /\ channel \in channels
    /\ log' = LogAppend(l, Frame("get", channel, None, None))
    /\ UNCHANGED <<_encoder_counts, position_um, pc, result>>

\* the request is written and one of the two assertions on the answer fails
GetRejected(l, channel) ==
    /\ channel \in channels
    /\ log' = LogAppend(l, Frame("get", channel, None, None))
    /\ UNCHANGED <<_encoder_counts, position_um>>
    /\ Raise("ProtocolError")

\* _send refuses a channel without a stage before anything is written
GetUnavailable(l, channel) ==
    /\ channel \notin channels
    /\ log' = l
    /\ UNCHANGED <<_encoder_counts, position_um>>
    /\ Raise("NotAvailable")

\* variant: a reading within the tolerance of a pending target completes it
_get_encoder_counts_Completes(channel) ==
    /\ Idle
    /\ cur' = Call("get", channel, None, FALSE, FALSE, None, None)
    /\ calls' = calls + 1
    /\ \/ \E r \in Readings(channel, Heading(channel)) :
            /\ GetAccepted(<<>>, channel, r)
            /\ Return
            /\ _target_encoder_counts' =
                 IF /\ _target_encoder_counts[channel] # None
                    /\ InTolerance(r, Val(_target_encoder_counts[channel]))
                 THEN [_target_encoder_counts EXCEPT ![channel] = None]
                 ELSE _target_encoder_counts
       \/ GetRejected(<<>>, channel) /\ UNCHANGED _target_encoder_counts
       \/ GetUnavailable(<<>>, channel) /\ UNCHANGED _target_encoder_counts
    /\ UNCHANGED <<stages, reverse>>

_get_encoder_counts(channel) ==
    /\ Idle
    /\ cur' = Call("get", channel, None, FALSE, FALSE, None, None)
    /\ calls' = calls + 1
    /\ \/ \E r \in Readings(channel, Heading(channel)) :
            GetAccepted(<<>>, channel, r) /\ Return
       \/ GetRejected(<<>>, channel)
       \/ GetUnavailable(<<>>, channel)
    /\ UNCHANGED <<stages, reverse, _target_encoder_counts>>

(* -------------------------- _legalize_move_um --------------------------- *)
\* variant: the limits themselves are accepted (<= for <)
InRange_Inclusive(channel, move_um) ==
    /\ ~UmLess(move_um, UmNeg(_position_limit_um(channel)))
    /\ ~UmLess(_position_limit_um(channel), move_um)

InRange(channel, move_um) ==
    /\ UmLess(UmNeg(_position_limit_um(channel)), move_um)
    /\ UmLess(move_um, _position_limit_um(channel))

\* variant: a target outside the limits is clamped to the nearest count inside
Legalized_Clamped(channel, move_um, relative) ==
    IF channel \notin channels
    THEN [status |-> "TypeError", legal_move_um |-> None]
    ELSE LET target == IF relative
                       THEN UmAdd(move_um, position_um[channel])
                       ELSE move_um
             inside == UmAdd(_position_limit_um(channel), UmNeg(Um(1, 0)))
             clamped == IF InRange(channel, target) THEN target
                        ELSE IF UmIsNeg(target) THEN UmNeg(inside) ELSE inside
             move_counts == _um_to_encoder_counts(channel, clamped)
         IN  [status |-> "ok",
              legal_move_um |-> _encoder_counts_to_um(channel, move_counts)]

\* position_um and _position_limit_um are None on a channel without a stage:
\* the arithmetic on them raises TypeError
Legalized(channel, move_um, relative) ==
    IF channel \notin channels
    THEN [status |-> "TypeError", legal_move_um |-> None]
    ELSE LET target == IF relative
                       THEN UmAdd(move_um, position_um[channel])
                       ELSE move_um
             move_counts == _um_to_encoder_counts(channel, target)
         IN  IF ~InRange(channel, target)
             THEN [status |-> "OutOfRange", legal_move_um |-> None]
             ELSE [status |-> "ok",
                   legal_move_um |-> _encoder_counts_to_um(channel, move_counts)]

_legalize_move_um(channel, move_um, relative) ==
    /\ Idle
    /\ LET leg == Legalized(channel, move_um, relative)
       IN  /\ cur' = Call("legalize", channel, move_um, relative, FALSE, None,
                          leg.legal_move_um)
           /\ result' = leg.status
    /\ calls' = calls + 1
    /\ log' = <<>>
    /\ UNCHANGED <<stages, reverse, _encoder_counts, _target_encoder_counts,
                   position_um, pc>>

(* ------------------- move_um, _move_to_encoder_count -------------------- *)
\* variant: the new move is issued over a pending one
EnterMove_NoFinish(channel) == pc' = "issue"

\* entry of _move_to_encoder_count: a pending move is finished first
EnterMove(channel) ==
    pc' = IF _target_encoder_counts[channel] # None
          THEN "finish_pending" ELSE "issue"

move_um(channel, move_um_, relative, block) ==
    /\ Idle
    /\ calls' = calls + 1
    /\ log' = <<>>
    /\ LET leg == Legalized(channel, move_um_, relative)
       IN  IF leg.status # "ok"
           THEN /\ cur' = Call("move", channel, move_um_, relative, block,
                               None, None)
                /\ Raise(leg.status)
           ELSE /\ cur' = Call("move", channel, move_um_, relative, block,
                               Some(_um_to_encoder_counts(channel,
                                                          leg.legal_move_um)),
                               leg.legal_move_um)
                /\ EnterMove(channel)
                /\ result' = "running"
    /\ UNCHANGED <<stages, reverse, _encoder_counts, _target_encoder_counts,
                   position_um>>

\* _move_to_encoder_count called by the caller itself
_move_to_encoder_count(channel, encoder_counts, block) ==
    /\ Idle
    /\ calls' = calls + 1
    /\ log' = <<>>
    /\ cur' = Call("issue", channel, None, FALSE, block, Some(encoder_counts), None)
    /\ EnterMove(channel)
    /\ result' = "running"
    /\ UNCHANGED <<stages, reverse, _encoder_counts, _target_encoder_counts,
                   position_um>>

\* where a finished polling loop of _finish_move returns to
AfterFinish ==
    IF pc = "finish_pending" THEN "issue"
    ELSE IF pc = "finish_block" /\ cur.op = "move" THEN "finish_again"
    ELSE "idle"

\* variant: block is not looked at, every move is finished before the return
IssueMove_AlwaysBlocks ==
    /\ pc = "issue"
    /\ LET channel == cur.channel
       IN  /\ _target_encoder_counts' =
                [_target_encoder_counts EXCEPT ![channel] = cur.encoder_counts]
           /\ \/ /\ channel \notin channels
                 /\ log' = log
                 /\ Raise("NotAvailable")
              \/ /\ channel \in channels
                 /\ log' = LogAppend(log, Frame("move", channel,
                                                cur.encoder_counts, None))
                 /\ \/ Raise("ProtocolError")
                    \/ /\ pc' = "finish_block"
                       /\ result' = result
    /\ UNCHANGED <<stages, reverse, _encoder_counts, position_um, cur, calls>>

\* the target is set, then the move-to-count frame is sent; block decides
\* whether _finish_move runs before the return
IssueMove ==
    /\ pc = "issue"
    /\ LET channel == cur.channel
       IN  /\ _target_encoder_counts' =
                [_target_encoder_counts EXCEPT ![channel] = cur.encoder_counts]
           /\ \/ /\ channel \notin channels
                 /\ log' = log
                 /\ Raise("NotAvailable")
              \/ /\ channel \in channels
                 /\ log' = LogAppend(log, Frame("move", channel,
                                                cur.encoder_counts, None))
                 /\ \/ Raise("ProtocolError")
                    \/ /\ cur.block
                       /\ pc' = "finish_block"
                       /\ result' = result
                    \/ /\ ~cur.block
                       /\ Return
    /\ UNCHANGED <<stages, reverse, _encoder_counts, position_um, cur, calls>>

(* ----------------------------- _finish_move ----------------------------- *)
\* variant: leaving the loop clears the targets of all channels
FinishPoll_ClearsAll ==
    /\ pc \in {"finish_pending", "finish_block", "finish"}
    /\ LET channel == cur.channel
           target == Val(_target_encoder_counts[channel])
       IN  \/ \E r \in Readings(channel, target) :
                /\ GetAccepted(log, channel, r)
                /\ IF InTolerance(r, target)
                   THEN /\ _target_encoder_counts' = [c \in Channels |-> None]
                        /\ pc' = AfterFinish
                        /\ result' = IF AfterFinish = "idle" THEN "ok"
                                     ELSE result
                   ELSE UNCHANGED <<_target_encoder_counts, pc, result>>
           \/ GetRejected(log, channel) /\ UNCHANGED _target_encoder_counts
           \/ GetUnavailable(log, channel) /\ UNCHANGED _target_encoder_counts
    /\ UNCHANGED <<stages, reverse, cur, calls>>

\* one turn of the polling loop: read the counts, leave when they are within
\* the tolerance of the target, and then clear the target
FinishPoll ==
    /\ pc \in {"finish_pending", "finish_block", "finish"}
    /\ LET channel == cur.channel
           target == Val(_target_encoder_counts[channel])
       IN  \/ \E r \in Readings(channel, target) :
                /\ GetAccepted(log, channel, r)
                /\ IF InTolerance(r, target)
                   THEN /\ _target_encoder_counts' =
                             [_target_encoder_counts EXCEPT ![channel] = None]
                        /\ pc' = AfterFinish
                        /\ result' = IF AfterFinish = "idle" THEN "ok"
                                     ELSE result
                   ELSE UNCHANGED <<_target_encoder_counts, pc, result>>
           \/ GetRejected(log, channel) /\ UNCHANGED _target_encoder_counts
           \/ GetUnavailable(log, channel) /\ UNCHANGED _target_encoder_counts
    /\ UNCHANGED <<stages, reverse, cur, calls>>

\* _finish_move called by the caller itself
_finish_move(channel) ==
    /\ Idle
    /\ calls' = calls + 1
    /\ log' = <<>>
    /\ cur' = Call("finish", channel, None, FALSE, FALSE, None, None)
    /\ IF _target_encoder_counts[channel] = None
       THEN Return
       ELSE pc' = "finish" /\ result' = "running"
    /\ UNCHANGED <<stages, reverse, _encoder_counts, _target_encoder_counts,
                   position_um>>

\* variant: the second _finish_move reads the counts once more
FinishAgain_Polls ==
    /\ pc = "finish_again"
    /\ \E r \in Readings(cur.channel, Heading(cur.channel)) :
         GetAccepted(log, cur.channel, r)
    /\ Return
    /\ UNCHANGED <<stages, reverse, _target_encoder_counts, cur, calls>>

\* the _finish_move that move_um runs after a blocking _move_to_encoder_count
FinishAgain ==
    /\ pc = "finish_again"
    /\ IF _target_encoder_counts[cur.channel] = None
       THEN Return
       ELSE pc' = "finish" /\ result' = result
    /\ UNCHANGED <<stages, reverse, _encoder_counts, _target_encoder_counts,
                   position_um, cur, log, calls>>

(* --------------------- _set_encoder_counts_to_zero ---------------------- *)
_set_encoder_counts_to_zero(channel) ==
    /\ Idle
    /\ calls' = calls + 1
    /\ cur' = Call("zero", channel, None, FALSE, FALSE, None, None)
    /\ \/ /\ channel \notin channels
          /\ log' = <<>>
          /\ Raise("NotAvailable")
       \/ /\ channel \in channels
          /\ log' = <<Frame("zero", channel, Some(0), None)>>
          /\ \/ Raise("ProtocolError")
             \/ pc' = "zero_poll" /\ result' = "running"
    /\ UNCHANGED <<stages, reverse, _encoder_counts, _target_encoder_counts,
                   position_um>>

\* variant: the loop is left on a reading within the tolerance of zero
ZeroPoll_WithinTolerance ==
    /\ pc = "zero_poll"
    /\ LET channel == cur.channel
       IN  \/ \E r \in Readings(channel, 0) :
                /\ GetAccepted(log, channel, r)
                /\ IF InTolerance(r, 0) THEN Return ELSE UNCHANGED <<pc, result>>
           \/ GetRejected(log, channel)
    /\ UNCHANGED <<stages, reverse, _target_encoder_counts, cur, calls>>

\* one turn of the loop that waits for the counts to read zero
ZeroPoll ==
    /\ pc = "zero_poll"
    /\ LET channel == cur.channel
       IN  \/ \E r \in Readings(channel, 0) :
                /\ GetAccepted(log, channel, r)
                /\ IF r = 0 THEN Return ELSE UNCHANGED <<pc, result>>
           \/ GetRejected(log, channel)
    /\ UNCHANGED <<stages, reverse, _target_encoder_counts, cur, calls>>

(* ------------------------------ the system ------------------------------ *)
Next ==
    \/ \E channel \in Channels : _get_encoder_counts(channel)
    \/ \E channel \in Channels : \E m \in RequestsOf(channel) :
         \E relative \in BOOLEAN : _legalize_move_um(channel, m, relative)
    \/ \E channel \in Channels : \E m \in RequestsOf(channel) :
         \E relative \in BOOLEAN : \E block \in BOOLEAN :
           move_um(channel, m, relative, block)
    \/ \E channel \in Channels : \E c \in CountRequests : \E block \in BOOLEAN :
         _move_to_encoder_count(channel, c, block)
    \/ IssueMove
    \/ FinishPoll
    \/ \E channel \in Channels : _finish_move(channel)
    \/ FinishAgain
    \/ \E channel \in Channels : _set_encoder_counts_to_zero(channel)
    \/ ZeroPoll

Spec == Init /\ [][Next]_vars

TypeOK ==
    /\ pc \in {"idle", "issue", "finish_pending", "finish_block", "finish",
               "finish_again", "zero_poll"}
    /\ calls \in 0..MaxCalls
    /\ result \in {"none", "running", "ok", "OutOfRange", "TypeError",
                   "NotAvailable", "ProtocolError"}
    /\ \A c \in Channels : c \notin channels => _encoder_counts[c] = None

(* ---------------------- the conversions on their own -------------------- *)
\* positions inside the limits of a stage: near zero, near 10 um and just
\* inside a limit, in both directions
UmGrid(stage) ==
    LET limit == StageLimitUm(stage)
        pos   == { Um(w, i * (Frac \div UmSteps)) :
                     w \in {0, 9, limit.w - 1}, i \in 0..(UmSteps - 1) }
    IN  pos \cup { UmNeg(a) : a \in pos }

\* counts near zero and up to the count of a limit, in both directions
CountGrid(stage) ==
    LET top == PyRound(StageLimitUm(stage), StageUmPerCount(stage))
        ks  == (0..MaxCount) \cup ((top - MaxCount)..top)
    IN  ks \cup { -k : k \in ks }

CountsOf(channel) ==
    IF stages[channel] = NoStage THEN {47} ELSE CountGrid(stages[channel])

\* the positions of the counts of CountsOf
CountPositions(channel) ==
    IF stages[channel] = NoStage THEN {Um(10, 0)}
    ELSE { _encoder_counts_to_um(channel, k) : k \in CountsOf(channel) }

UmInputs(channel) ==
    IF stages[channel] = NoStage THEN {Um(10, 0)}
    ELSE UmGrid(stages[channel]) \cup CountPositions(channel)

\* _um_to_encoder_counts called by the caller itself; dividing by the None
\* of a channel without a stage raises TypeError
Convert_um_to_encoder_counts(channel, um) ==
    /\ Idle
    /\ calls = 0
    /\ calls' = calls + 1
    /\ log' = <<>>
    /\ IF channel \in channels
       THEN /\ cur' = Call("to_counts", channel, um, FALSE, FALSE,
                           Some(_um_to_encoder_counts(channel, um)), None)
            /\ result' = "ok"
       ELSE /\ cur' = Call("to_counts", channel, um, FALSE, FALSE, None, None)
            /\ result' = "TypeError"
    /\ UNCHANGED <<stages, reverse, _encoder_counts, _target_encoder_counts,
                   position_um, pc>>

\* _encoder_counts_to_um called by the caller on the counts it just got
Convert_encoder_counts_to_um ==
    /\ pc = "idle"
    /\ cur.op = "to_counts"
    /\ result = "ok"
    /\ cur' = [cur EXCEPT !.op = "to_um",
                          !.legal_move_um =
                             _encoder_counts_to_um(cur.channel,
                                                   Val(cur.encoder_counts))]
    /\ calls' = calls + 1
    /\ UNCHANGED <<stages, reverse, _encoder_counts, _target_encoder_counts,
                   position_um, pc, log, result>>

\* after construction the caller makes a round trip through the two
\* conversions, or legalizes the position of a count, or moves to it
ConvNext ==
    \/ \E channel \in Channels : \E um \in UmInputs(channel) :
         Convert_um_to_encoder_counts(channel, um)
    \/ Convert_encoder_counts_to_um
    \/ \E channel \in Channels : \E um \in CountPositions(channel) :
         calls = 0 /\ _legalize_move_um(channel, um, FALSE)
    \/ \E channel \in Channels : \E um \in CountPositions(channel) :
         \E block \in BOOLEAN :
           calls = 0 /\ move_um(channel, um, FALSE, block)
    \/ IssueMove
    \/ FinishPoll
    \/ FinishAgain

ConvSpec == Init /\ [][ConvNext]_vars

(* ------------------- a device that comes to its target ------------------ *)
\* the link carries every frame: no response fails a check
NoFault == result' # "ProtocolError"

LiveNext ==
    \/ \E channel \in Channels : _get_encoder_counts(channel) /\ NoFault
    \/ \E channel \in Channels : \E m \in RequestsOf(channel) :
         \E relative \in BOOLEAN : _legalize_move_um(channel, m, relative)
    \/ \E channel \in Channels : \E m \in RequestsOf(channel) :
         \E relative \in BOOLEAN : \E block \in BOOLEAN :
           move_um(channel, m, relative, block)
    \/ \E channel \in Channels : \E c \in CountRequests : \E block \in BOOLEAN :
         _move_to_encoder_count(channel, c, block)
    \/ IssueMove /\ NoFault
    \/ FinishPoll /\ NoFault
    \/ \E channel \in Channels : _finish_move(channel)
    \/ FinishAgain
    \/ \E channel \in Channels : _set_encoder_counts_to_zero(channel) /\ NoFault
    \/ ZeroPoll /\ NoFault

\* the poll of _finish_move that reads a count within the tolerance
FinishArrives == FinishPoll /\ _target_encoder_counts'[cur.channel] = None

\* the next step of a move in progress: the frame is sent, or the poll finds
\* the count within the tolerance, or the second finish returns
MoveStep ==
    \/ IssueMove /\ NoFault
    \/ FinishArrives
    \/ FinishAgain

\* the method in progress runs on (one thread, no waiting but the sleep of
\* the polling loop), and the device comes to within the tolerance of its
\* target: the poll that finds it there is not put off for ever
LiveSpec == Init /\ [][LiveNext]_vars /\ WF_vars(MoveStep)

(* ------------------------------ properties ------------------------------ *)
\* the last call has returned to the caller without raising
Returned(op) == pc = "idle" /\ result = "ok" /\ cur.op = op

\* |a - b| <= d
Near(a, b, d) == a - b <= d /\ b - a <= d

MoveFrame(channel, counts) == Frame("move", channel, counts, None)

HasMoveFrame == \E i \in 1..Len(log) : log[i].cmd = "move"

StrictlyInside(um, limit) == UmLess(UmNeg(limit), um) /\ UmLess(um, limit)

\* C1: a move-to-count frame is written for a channel that had a move
\* pending when the call began only after the polls of that call have run up
\* to a reading within the tolerance of the pending target and the target has
\* been cleared: every logged poll before the last is outside the window, the
\* last one inside it, and the frame follows it.
C1_PendingResolvedBeforeMove ==
    /\ pc = "issue" => _target_encoder_counts[cur.channel] = None
    /\ \A i \in 1..Len(log) :
         (log[i].cmd = "move" /\ cur.pending # None) =>
           /\ i >= 2
           /\ IsPoll(log[i - 1], cur.channel)
           /\ log[i - 1].resp # None
           /\ Near(Val(log[i - 1].resp), Val(cur.pending), _encoder_counts_tol)
           /\ \A j \in 1..(i - 2) :
                /\ IsPoll(log[j], cur.channel)
                /\ log[j].resp # None
                /\ ~Near(Val(log[j].resp), Val(cur.pending), _encoder_counts_tol)

\* a second non-blocking move has returned after polling the first one twice
C1_Witness ==
    /\ Returned("move") /\ ~cur.block /\ cur.pending # None
    /\ Len(log) = 3 /\ log[3].cmd = "move"
    /\ _target_encoder_counts[cur.channel] = cur.encoder_counts

\* C2 (as claimed): a relative move requested while a move is pending adds
\* the displacement to the position of the pending target.
C2_RelativeFromPendingTarget ==
    (/\ cur.op = "move" /\ cur.relative
     /\ cur.pending # None /\ cur.encoder_counts # None
     /\ cur.channel \in channels) =>
       Val(cur.encoder_counts) =
         _um_to_encoder_counts(cur.channel,
            UmAdd(_encoder_counts_to_um(cur.channel, Val(cur.pending)),
                  cur.move_um))

\* C3: when a blocking move_um has returned, the channel has no pending
\* target, the move-to-count frame carried the count computed for the move,
\* and the last known count is within the tolerance of that count.
C3_BlockingMoveArrives ==
    (Returned("move") /\ cur.block) =>
       /\ _target_encoder_counts[cur.channel] = None
       /\ \E i \in 1..Len(log) :
            log[i] = MoveFrame(cur.channel, cur.encoder_counts)
       /\ Near(Val(_encoder_counts[cur.channel]), Val(cur.encoder_counts),
               _encoder_counts_tol)

\* a blocking move has returned on a reading at the edge of the window
C3_Witness ==
    /\ Returned("move") /\ cur.block
    /\ Val(_encoder_counts[cur.channel]) # Val(cur.encoder_counts)
    /\ Len(log) >= 3

\* C4: when a non-blocking move_um on a channel without a pending move has
\* returned, the channel's pending target is the count just sent, the only
\* frame the call wrote is the move-to-count frame (no get-position request),
\* and the last known count and position are those from before the call.
C4_NonBlockingDefers ==
    (Returned("move") /\ ~cur.block /\ cur.pending = None) =>
       /\ _target_encoder_counts[cur.channel] = cur.encoder_counts
       /\ cur.encoder_counts # None
       /\ log = <<MoveFrame(cur.channel, cur.encoder_counts)>>
       /\ _encoder_counts[cur.channel] = cur.counts0
       /\ position_um[cur.channel] = cur.position0

\* a non-blocking move has returned with the channel moving to a new count
C4_Witness ==
    /\ Returned("move") /\ ~cur.block /\ cur.pending = None
    /\ _target_encoder_counts[cur.channel] # None
    /\ _target_encoder_counts[cur.channel] # _encoder_counts[cur.channel]

\* C5 (as claimed): a move is legalized, and its frame sent, only if the
\* position of the target count lies strictly inside the limits.
C5_SnappedInsideLimits ==
    (/\ cur.op \in {"move", "legalize"}
     /\ cur.legal_move_um # None) =>
       StrictlyInside(cur.legal_move_um, _position_limit_um(cur.channel))

\* C6: for every stage, an absolute request of a limit or beyond it, in
\* either direction, raises the range error, and an absolute request of half
\* a count inside the limit is accepted.
C6_LimitBoundary ==
    (/\ cur.op \in {"move", "legalize"}
     /\ ~cur.relative
     /\ cur.channel \in channels) =>
       LET stage == stages[cur.channel]
           limit == StageLimitUm(stage)
           half  == Um(0, StageUmPerCount(stage) \div 2)
       IN  /\ stage \in SupportedStages
           /\ ~StrictlyInside(cur.move_um, limit) =>
                /\ pc = "idle" /\ result = "OutOfRange"
                /\ cur.legal_move_um = None
           /\ cur.move_um = UmAdd(limit, UmNeg(half)) =>
                /\ result # "OutOfRange"
                /\ cur.legal_move_um # None

\* the 0.5 um stage has been sent half a count inside its limit
C6_Witness ==
    /\ cur.op = "move" /\ ~cur.relative
    /\ stages[cur.channel] = "MMP-2XY"
    /\ cur.move_um = Um(MMP_limit_um - 1, 75000000)
    /\ HasMoveFrame

\* C7: a move or a legalization whose target (the request, plus the stored
\* position if relative) is not strictly inside the limits raises the range
\* error at once: the call writes no frame and leaves the last known count,
\* the position and the pending target as they were.
C7_OutOfRangeNoEffect ==
    (/\ cur.op \in {"move", "legalize"}
     /\ cur.channel \in channels
     /\ ~StrictlyInside(IF cur.relative
                        THEN UmAdd(cur.move_um, cur.position0)
                        ELSE cur.move_um,
                        _position_limit_um(cur.channel))) =>
       /\ pc = "idle" /\ result = "OutOfRange"
       /\ log = <<>>
       /\ _encoder_counts[cur.channel] = cur.counts0
       /\ position_um[cur.channel] = cur.position0
       /\ _target_encoder_counts[cur.channel] = cur.pending

\* a move has been refused on a channel whose previous move is pending
C7_Witness ==
    /\ cur.op = "move" /\ result = "OutOfRange"
    /\ cur.pending # None
    /\ _target_encoder_counts[cur.channel] = cur.pending

\* C8 (as claimed): on a channel without a stage every operation fails,
\* nothing is written to the port and the pending target stays None.
C8_UnpopulatedInert ==
    \A c \in Channels \ channels :
       /\ _target_encoder_counts[c] = None
       /\ \A i \in 1..Len(log) : log[i].channel # c
       /\ (cur.channel = c /\ pc = "idle"
             /\ cur.op \in {"get", "zero", "issue", "move"}) =>
            result \notin {"ok", "running"}

\* C9: when _get_encoder_counts has returned, it has written exactly one
\* get-position request, the last known count is the count reported and the
\* position its conversion, and the pending target is what it was before the
\* call, also when the reading is within the tolerance of that target.
C9_GetPositionFrame ==
    Returned("get") =>
       /\ cur.channel \in channels
       /\ Len(log) = 1
       /\ IsPoll(log[1], cur.channel)
       /\ log[1].resp = _encoder_counts[cur.channel]
       /\ _encoder_counts[cur.channel] # None
       /\ position_um[cur.channel] =
            _encoder_counts_to_um(cur.channel, Val(_encoder_counts[cur.channel]))
       /\ _target_encoder_counts[cur.channel] = cur.pending

\* a position read on a moving channel has reported the target itself
C9_Witness ==
    /\ Returned("get") /\ cur.pending # None
    /\ _encoder_counts[cur.channel] = cur.pending
    /\ _encoder_counts[cur.channel] # cur.counts0

\* C10: _set_encoder_counts_to_zero writes the zero-encoder frame first and
\* then only get-position requests; while it polls no reading was zero, and
\* when it has returned the last reading, and only that one, was zero, the
\* last known count is 0 and the position is 0.
C10_ZeroCalibration ==
    (cur.op = "zero" /\ (pc = "zero_poll" \/ Returned("zero"))) =>
       /\ Len(log) >= 1
       /\ log[1] = Frame("zero", cur.channel, Some(0), None)
       /\ \A i \in 2..Len(log) :
            /\ IsPoll(log[i], cur.channel)
            /\ log[i].resp # None
            /\ (log[i].resp = Some(0)) <=> (Returned("zero") /\ i = Len(log))
       /\ Returned("zero") =>
            /\ Len(log) >= 2
            /\ _encoder_counts[cur.channel] = Some(0)
            /\ position_um[cur.channel] = UmZero

\* a reversed channel away from zero has been zeroed after a non-zero reading
C10_Witness ==
    /\ Returned("zero") /\ reverse[cur.channel]
    /\ cur.counts0 # Some(0)
    /\ Len(log) >= 3

\* C11 (as claimed): on a non-reversed 0.2116667 um/count channel at count
\* 0, a blocking relative move of 10 um computes and sends count 47, polls to
\* within the tolerance of 47 and returns 9.9684149.
C11_ScenarioAsClaimed ==
    (/\ Returned("move") /\ cur.relative /\ cur.block
     /\ cur.move_um = Um(10, 0)
     /\ stages[cur.channel] \in {"ZFM2020", "ZFM2030"}
     /\ ~reverse[cur.channel]
     /\ cur.counts0 = Some(0)) =>
       /\ cur.encoder_counts = Some(47)
       /\ \E i \in 1..Len(log) : log[i] = MoveFrame(cur.channel, Some(47))
       /\ Near(Val(_encoder_counts[cur.channel]), 47, _encoder_counts_tol)
       /\ cur.legal_move_um = Um(9, 96841490)

\* C11 (amended): the same move computes and sends count 47, polls to within
\* the tolerance of 47 and returns 47 x 0.2116667 = 9.9483349.
C11_Scenario ==
    (/\ cur.op = "move" /\ cur.relative /\ cur.block
     /\ cur.move_um = Um(10, 0)
     /\ stages[cur.channel] \in {"ZFM2020", "ZFM2030"}
     /\ ~reverse[cur.channel]
     /\ cur.counts0 = Some(0)) =>
       /\ cur.encoder_counts = Some(47)
       /\ cur.legal_move_um = Um(9, 94833490)
       /\ \A i \in 1..Len(log) :
            log[i].cmd = "move" => log[i] = MoveFrame(cur.channel, Some(47))
       /\ Returned("move") =>
            /\ \E i \in 1..Len(log) : log[i] = MoveFrame(cur.channel, Some(47))
            /\ Near(Val(_encoder_counts[cur.channel]), 47, _encoder_counts_tol)
            /\ _target_encoder_counts[cur.channel] = None

\* the move of the scenario has returned
C11_Witness ==
    /\ Returned("move") /\ cur.relative /\ cur.block
    /\ cur.move_um = Um(10, 0)
    /\ stages[cur.channel] = "ZFM2020" /\ ~reverse[cur.channel]
    /\ cur.counts0 = Some(0) /\ cur.pending = None
    /\ cur.legal_move_um = Um(9, 94833490)

\* C12: for every populated channel, of either scale and reversed or not,
\* and every position x inside the limits, converting x to counts and back
\* gives a position less than one count's worth of micrometres from x.
C12_RoundTripWithinOneCount ==
    (/\ cur.op = "to_um"
     /\ StrictlyInside(cur.move_um, _position_limit_um(cur.channel))) =>
       LET d == UmAdd(cur.legal_move_um, UmNeg(cur.move_um))
       IN  UmLess(UmAbs(d), Um(0, _um_per_count(cur.channel)))

\* a negative position off the grid of counts has made the round trip on a
\* reversed channel
C12_Witness ==
    /\ cur.op = "to_um"
    /\ reverse[cur.channel]
    /\ UmIsNeg(cur.move_um)
    /\ cur.encoder_counts = Some(47)
    /\ cur.legal_move_um # cur.move_um

\* the position of the count k on a channel, as the claims put it: k times
\* the scale, negated on a reversed channel
CountPosition(channel, k) ==
    LET um == IF k >= 0 THEN UmScale(k, _um_per_count(channel))
              ELSE UmNeg(UmScale(-k, _um_per_count(channel)))
    IN  IF reverse[channel] THEN UmNeg(um) ELSE um

PositionOfCount(k) == CountPosition(cur.channel, k)

\* C13: for every count k whose position is inside the limits, legalizing
\* that position as an absolute request returns it unchanged and converting
\* it to counts gives k; the count a move sends is the count its request
\* rounds to, and the position it returns is the position of the count sent.
C13_LegalizeIdempotent ==
    /\ (cur.op \in {"legalize", "to_counts"} /\ cur.channel \in channels) =>
         \A k \in CountsOf(cur.channel) :
           (/\ cur.move_um = PositionOfCount(k)
            /\ StrictlyInside(cur.move_um, _position_limit_um(cur.channel))) =>
              /\ result = "ok"
              /\ cur.op = "legalize" => cur.legal_move_um = cur.move_um
              /\ cur.op = "to_counts" => cur.encoder_counts = Some(k)
    /\ (cur.op = "move" /\ cur.legal_move_um # None) =>
         /\ \E k \in CountsOf(cur.channel) :
              /\ cur.move_um = PositionOfCount(k)
              /\ cur.encoder_counts = Some(k)
         /\ cur.legal_move_um = PositionOfCount(Val(cur.encoder_counts))
         /\ \A i \in 1..Len(log) :
              log[i].cmd = "move" => log[i].arg = cur.encoder_counts

\* a blocking move to the position of the last count inside the limit of a
\* reversed channel has returned
C13_Witness ==
    /\ Returned("move") /\ cur.block
    /\ reverse[cur.channel]
    /\ cur.encoder_counts = Some(-59999)
    /\ cur.legal_move_um = cur.move_um
    /\ log[1] = MoveFrame(cur.channel, Some(-59999))

\* the last frame of the log, None when nothing is written yet
LastFrame(l) == IF Len(l) = 0 THEN None ELSE Some(l[Len(l)])

\* C14: no channel has a pending target after construction; a step gives a
\* channel a pending target only by writing the move-to-count frame for
\* exactly that target on that channel, and takes it away only by the poll
\* that ends a finish; whenever a finish or a blocking move has returned
\* normally the channel has no pending target.
C14_PendingLifecycle ==
    /\ \A c \in Channels : _target_encoder_counts[c] = None
    /\ [][/\ \A c \in Channels :
               _target_encoder_counts'[c] # _target_encoder_counts[c] =>
                 IF _target_encoder_counts'[c] # None
                 THEN /\ log' # log
                      /\ LastFrame(log') =
                           Some(MoveFrame(c, _target_encoder_counts'[c]))
                 ELSE /\ pc \in {"finish_pending", "finish_block", "finish"}
                      /\ c = cur.channel
                      /\ LastFrame(log') =
                           Some(Frame("get", c, None, _encoder_counts'[c]))
                      /\ Near(Val(_encoder_counts'[c]),
                              Val(_target_encoder_counts[c]),
                              _encoder_counts_tol)
          /\ (/\ pc' = "idle" /\ result' = "ok"
              /\ cur'.op \in {"finish", "move", "issue"}
              /\ cur'.op = "finish" \/ cur'.block) =>
               _target_encoder_counts'[cur'.channel] = None
         ]_vars

\* the get-position requests of the current call that were answered and
\* accepted
AcceptedPolls == { i \in 1..Len(log) : log[i].cmd = "get" /\ log[i].resp # None }

LastAccepted == log[CHOOSE i \in AcceptedPolls : \A j \in AcceptedPolls : j <= i]

\* C15: on every populated channel the stored position is the position of the
\* stored counts; on the channel of the current call both are what the last
\* accepted get-position response of the call gave, and what they were when
\* the call began if there was none: no frame written and no failed response
\* changes them.
C15_PositionMatchesCounts ==
    /\ \A c \in channels :
         /\ _encoder_counts[c] # None
         /\ position_um[c] = CountPosition(c, Val(_encoder_counts[c]))
    /\ cur.op # "init" =>
         IF AcceptedPolls = {}
         THEN /\ _encoder_counts[cur.channel] = cur.counts0
              /\ position_um[cur.channel] = cur.position0
         ELSE /\ LastAccepted.channel = cur.channel
              /\ _encoder_counts[cur.channel] = LastAccepted.resp

\* a blocking move has written its frame, left the counts and the position
\* alone, and then a get-position response has moved both
C15_Witness ==
    /\ pc = "finish_block"
    /\ Len(log) = 2 /\ log[1].cmd = "move" /\ log[2].cmd = "get"
    /\ log[2].resp # None
    /\ _encoder_counts[cur.channel] # cur.counts0
    /\ position_um[cur.channel] # cur.position0
    /\ _target_encoder_counts[cur.channel] # None

\* C16: a get-position response that fails a check of the frame codec, or
\* unread bytes found after a frame is sent, ends the operation in progress
\* with an error: the failing frame is the last one written, and the stored
\* counts and position are those of the last accepted response before it.
C16_CodecFailureFatal ==
    /\ \A i \in 1..Len(log) :
         (log[i].cmd = "get" /\ log[i].resp = None) =>
           /\ i = Len(log)
           /\ pc = "idle" /\ result = "ProtocolError"
    /\ result = "ProtocolError" =>
         /\ pc = "idle"
         /\ Len(log) > 0
         /\ log[Len(log)].resp = None
         /\ log[Len(log)].channel = cur.channel
         /\ IF AcceptedPolls = {}
            THEN /\ _encoder_counts[cur.channel] = cur.counts0
                 /\ position_um[cur.channel] = cur.position0
            ELSE /\ _encoder_counts[cur.channel] = LastAccepted.resp
                 /\ position_um[cur.channel] =
                      CountPosition(cur.channel, Val(LastAccepted.resp))

\* a finish has polled, accepted a reading short of the target, and then
\* stopped on a response that failed a check
C16_Witness ==
    /\ pc = "idle" /\ result = "ProtocolError"
    /\ cur.op = "finish"
    /\ Len(log) = 2
    /\ log[1].resp # None /\ log[2] = Frame("get", cur.channel, None, None)
    /\ _encoder_counts[cur.channel] = log[1].resp
    /\ _target_encoder_counts[cur.channel] # None

\* a _finish_move is polling on the channel
Finishing(c) ==
    pc \in {"finish_pending", "finish_block", "finish"} /\ cur.channel = c

\* C17: with a tolerance of at least one count and a device that comes to
\* within the tolerance of its target, every finish of a pending move on a
\* populated channel ends with no move pending on the channel, and every
\* blocking move returns so; a finish leaves its loop only on a poll within
\* the tolerance of the target, and a poll outside it leaves the move pending.
C17_FinishTerminates ==
    /\ \A c \in Channels :
         (Finishing(c) /\ c \in channels) ~>
           (~Finishing(c) /\ _target_encoder_counts[c] = None)
    /\ (/\ cur.op = "move" /\ cur.block /\ result = "running"
        /\ cur.channel \in channels) ~>
          (Returned("move") /\ _target_encoder_counts[cur.channel] = None)
    /\ [][\A c \in channels :
            Finishing(c) =>
              IF /\ LastFrame(log') =
                      Some(Frame("get", c, None, _encoder_counts'[c]))
                 /\ Near(Val(_encoder_counts'[c]),
                         Val(_target_encoder_counts[c]), _encoder_counts_tol)
              THEN /\ ~Finishing(c)'
                   /\ _target_encoder_counts'[c] = None
              ELSE /\ Finishing(c)'
                   /\ _target_encoder_counts'[c] = _target_encoder_counts[c]
         ]_vars

\* a finish has returned after a poll short of the target and a poll at the
\* edge of the tolerance
C17_Witness ==
    /\ Returned("finish")
    /\ cur.pending # None
    /\ Len(log) = 2
    /\ ~Near(Val(log[1].resp), Val(cur.pending), _encoder_counts_tol)
    /\ Val(log[2].resp) = Val(cur.pending) + _encoder_counts_tol
    /\ _target_encoder_counts[cur.channel] = None

\* C18: the zero frame is never written for a channel that has a pending
\* target, and a zero never returns with the stored count 0 and a pending
\* target still set on its channel.
C18_ZeroOnlyWhenIdle ==
    /\ \A i \in 1..Len(log) : log[i].cmd = "zero" => cur.pending = None
    /\ Returned("zero") =>
         ~(/\ _encoder_counts[cur.channel] = Some(0)
           /\ _target_encoder_counts[cur.channel] # None)

\* C19: a finish called on a channel with no pending target writes no frame
\* and changes nothing of the controller, and the second finish of a
\* blocking move writes no frame, reads no counts and returns.
C19_FinishOnIdleNoOp ==
    [][/\ (/\ pc = "idle" /\ calls' = calls + 1 /\ cur'.op = "finish"
           /\ _target_encoder_counts[cur'.channel] = None) =>
            /\ log' = <<>>
            /\ pc' = "idle" /\ result' = "ok"
            /\ UNCHANGED <<_encoder_counts, position_um,
                           _target_encoder_counts>>
       /\ pc = "finish_again" =>
            /\ _target_encoder_counts[cur.channel] = None
            /\ log' = log
            /\ pc' = "idle" /\ result' = "ok"
            /\ UNCHANGED <<_encoder_counts, position_um,
                           _target_encoder_counts>>
      ]_vars

\* a blocking move has returned through its second finish with the frames of
\* its first: the move frame, a poll short of the target and a poll on it
C19_Witness ==
    /\ Returned("move") /\ cur.block
    /\ Len(log) = 3
    /\ log[1] = MoveFrame(cur.channel, cur.encoder_counts)
    /\ log[2].cmd = "get" /\ log[2].resp # cur.encoder_counts
    /\ log[3] = Frame("get", cur.channel, None, cur.encoder_counts)
    /\ _target_encoder_counts[cur.channel] = None

\* C20: a step of an operation on one channel leaves the stored counts, the
\* stored position and the pending target of every other channel as they
\* were, and every frame the operation writes is for its own channel: a move
\* on one channel neither polls nor ends a move pending on another.
C20_ChannelsIndependent ==
    [][/\ \A d \in Channels \ {cur'.channel} :
            /\ _encoder_counts'[d] = _encoder_counts[d]
            /\ position_um'[d] = position_um[d]
            /\ _target_encoder_counts'[d] = _target_encoder_counts[d]
       /\ \A i \in 1..Len(log') : log'[i].channel = cur'.channel
      ]_vars

\* a blocking move has returned on one populated channel while a move is
\* still pending on another
C20_Witness ==
    /\ Returned("move") /\ cur.block
    /\ \E d \in channels \ {cur.channel} :
         /\ _target_encoder_counts[d] # None
         /\ ~Near(Val(_encoder_counts[d]), Val(_target_encoder_counts[d]),
                  _encoder_counts_tol)
    /\ \E i \in 1..Len(log) : log[i].cmd = "get"

====
